---- MODULE Spec2Model ----
(***************************************************************************)
(* Model of the ge_kitchen update coordinator                              *)
(* (homeassistant/components/ge_kitchen/update_coordinator.py) and of the  *)
(* appliance facades it keeps (appliance_api.py).                          *)
(*                                                                         *)
(* Spec     : one coordinator from construction on, driven by the host     *)
(*            (get_new_client, regenerate_appliance_apis) and by the       *)
(*            events of the client it holds.                               *)
(* SpecApi  : the facade layer driven through its own operations, from     *)
(*            every registry content the type dispatch can build.          *)
(***************************************************************************)
EXTENDS Integers, Sequences, FiniteSets, TLC

(* ---------------------------------------------------------------- bounds *)
MaxClients == 2          \* GeClient objects created over one run
MaxAllocs == 2           \* facade objects and entity lists allocated over one run

(* ------------------------------------------------------------ appliances *)
\* Bare JIDs of the appliances of the account.  "io" is a two character
\* string: the only length a Python tuple-unpacking of a str accepts.
Jids == {"a@x", "io"}

JidLen(j) == IF j = "io" THEN 2 ELSE 3

FirstChar(j) == IF j = "io" THEN "i" ELSE "a"

\* appliance_type of each appliance
ApplianceType(j) == IF j = "io" THEN "DISH_WASHER" ELSE "OVEN"

\* ErdCode.SERIAL_NUMBER of each appliance
SerialNumber(j) == IF j = "io" THEN "SN2" ELSE "SN1"

\* a GeAppliance the client has just learnt of
NewAppliance(j) ==
    [initialized |-> FALSE, available |-> TRUE, event |-> FALSE,
     appliance_type |-> ApplianceType(j), has_lower_oven |-> j = "a@x",
     temperature_unit |-> "None"]

NoClient == 0            \* self.client = None

VARIABLES
    clients,             \* the GeClient objects created so far: <<[connected, appliances]>>
    client,              \* self.client: index into clients, or NoClient
    xmpp_credentials,    \* self._xmpp_credentials
    appliance_apis,      \* self._appliance_apis: jid -> facade
    got_roster,          \* self._got_roster
    future_done,         \* self.initialization_future.done()
    set_result_calls,    \* calls of initialization_future.set_result
    ready_events,        \* EVENT_ALL_APPLIANCES_READY emitted on the client
    roster_seen,         \* an on_roster_update call has been handled
    polls,               \* sleeping polling loops: <<client index, jid>>
    allocs,              \* facades and entity lists allocated so far (object identity)
    writes,              \* entities whose async_write_ha_state the last operation called
    last                 \* the last operation and how it ended

vars == <<clients, client, xmpp_credentials, appliance_apis, got_roster, future_done,
          set_result_calls, ready_events, roster_seen, polls, allocs, writes, last>>

coordVars == <<got_roster, future_done, set_result_calls, ready_events, roster_seen>>

\* resolved: the operation took initialization_future from pending to done;
\* erd, ret: the property code a read was about and the value it returned
Op(op, jid, err) ==
    [op |-> op, jid |-> jid, err |-> err, resolved |-> FALSE, erd |-> "", ret |-> ""]

Handled(op, jid) ==
    [op |-> op, jid |-> jid, err |-> "none", resolved |-> ~future_done /\ future_done',
     erd |-> "", ret |-> ""]

Returned(op, jid, erd, ret) ==
    [op |-> op, jid |-> jid, err |-> "none", resolved |-> FALSE, erd |-> erd, ret |-> ret]

\* self.client.appliances
Appliances == clients[client].appliances

Roster == DOMAIN Appliances

EmptyMap == [j \in {} |-> 0]

(* --------------------------------------------------------- appliance_api *)
\* get_appliance_api_type
GetApplianceApiType(appliance_type) ==
    IF appliance_type = "OVEN" THEN "OvenApi" ELSE "ApplianceApi"

\* ApplianceApi.__init__ (OvenApi inherits it): the new object, or the error raised
\* id: the identity of the object, jid: the appliance it wraps
NewApi(cls, id, jid, appliance) ==
    [cls |-> cls, id |-> id, jid |-> jid, has_lower_oven |-> appliance.has_lower_oven,
     entities |-> <<>>]

NoCheckApplianceApiInit(cls, id, jid, appliance) ==
    [err |-> "none", api |-> NewApi(cls, id, jid, appliance)]

ApplianceApiInit(cls, id, jid, appliance) ==
    IF ~appliance.initialized
    THEN [err |-> "RuntimeError"]
    ELSE [err |-> "none", api |-> NewApi(cls, id, jid, appliance)]

\* GeKitchenUpdateCoordinator._get_appliance_api
GetApplianceApi(id, jid, appliance) ==
    ApplianceApiInit(GetApplianceApiType(appliance.appliance_type), id, jid, appliance)

\* TEMPERATURE_ERD_CODES
TemperatureErdCodes ==
    {"HOT_WATER_SET_TEMP", "LOWER_OVEN_DISPLAY_TEMPERATURE", "LOWER_OVEN_PROBE_DISPLAY_TEMP",
     "LOWER_OVEN_USER_TEMP_OFFSET", "LOWER_OVEN_RAW_TEMPERATURE", "OVEN_MODE_MIN_MAX_TEMP",
     "UPPER_OVEN_DISPLAY_TEMPERATURE", "UPPER_OVEN_PROBE_DISPLAY_TEMP",
     "UPPER_OVEN_USER_TEMP_OFFSET", "UPPER_OVEN_RAW_TEMPERATURE"}

\* the values get_erd_value(ErdCode.TEMPERATURE_UNIT) returns: a member of the
\* ErdMeasurementUnits enumeration, or None
MeasurementUnits == {"METRIC", "IMPERIAL", "None"}

\* bool(measurement_units): members of an Enum are true, None is false
Truthy(measurement_units) == measurement_units # "None"

\* get_erd_units without its `if not measurement_units: return None`
GetErdUnitsNoGuard(erd_code, measurement_units) ==
    IF erd_code \in TemperatureErdCodes
    THEN IF measurement_units = "METRIC" THEN "TEMP_CELSIUS" ELSE "TEMP_FAHRENHEIT"
    ELSE "None"

\* get_erd_units
GetErdUnits(erd_code, measurement_units) ==
    IF ~Truthy(measurement_units) THEN "None"
    ELSE IF erd_code \in TemperatureErdCodes
         THEN IF measurement_units = "METRIC" THEN "TEMP_CELSIUS" ELSE "TEMP_FAHRENHEIT"
         ELSE "None"

\* str.lower() on the names of the ErdCode members the entities use
ErdLower ==
    [CLOCK_TIME |-> "clock_time", SABBATH_MODE |-> "sabbath_mode",
     UPPER_OVEN_COOK_MODE |-> "upper_oven_cook_mode",
     UPPER_OVEN_COOK_TIME_REMAINING |-> "upper_oven_cook_time_remaining",
     UPPER_OVEN_CURRENT_STATE |-> "upper_oven_current_state",
     UPPER_OVEN_DELAY_TIME_REMAINING |-> "upper_oven_delay_time_remaining",
     UPPER_OVEN_DISPLAY_TEMPERATURE |-> "upper_oven_display_temperature",
     UPPER_OVEN_ELAPSED_COOK_TIME |-> "upper_oven_elapsed_cook_time",
     UPPER_OVEN_KITCHEN_TIMER |-> "upper_oven_kitchen_timer",
     UPPER_OVEN_PROBE_DISPLAY_TEMP |-> "upper_oven_probe_display_temp",
     UPPER_OVEN_USER_TEMP_OFFSET |-> "upper_oven_user_temp_offset",
     UPPER_OVEN_RAW_TEMPERATURE |-> "upper_oven_raw_temperature",
     UPPER_OVEN_PROBE_PRESENT |-> "upper_oven_probe_present",
     UPPER_OVEN_REMOTE_ENABLED |-> "upper_oven_remote_enabled"]

\* GeErdEntity.unique_id: f'{DOMAIN}_{serial_number}_{erd_string.lower()}'
UniqueId(entity) == <<"ge_kitchen", SerialNumber(entity.jid), ErdLower[entity.erd]>>

GeSensor(erd) == [cls |-> "GeSensor", erd |-> erd]
GeBinarySensor(erd) == [cls |-> "GeBinarySensor", erd |-> erd]

\* ApplianceApi.get_all_entities
BaseEntities == <<GeSensor("CLOCK_TIME"), GeBinarySensor("SABBATH_MODE")>>

\* the list OvenApi.get_all_entities builds for one cavity
OvenCavityEntities ==
    <<GeSensor("UPPER_OVEN_COOK_MODE"), GeSensor("UPPER_OVEN_COOK_TIME_REMAINING"),
      GeSensor("UPPER_OVEN_CURRENT_STATE"), GeSensor("UPPER_OVEN_DELAY_TIME_REMAINING"),
      GeSensor("UPPER_OVEN_DISPLAY_TEMPERATURE"), GeSensor("UPPER_OVEN_ELAPSED_COOK_TIME"),
      GeSensor("UPPER_OVEN_KITCHEN_TIMER"), GeSensor("UPPER_OVEN_PROBE_DISPLAY_TEMP"),
      GeSensor("UPPER_OVEN_USER_TEMP_OFFSET"), GeSensor("UPPER_OVEN_RAW_TEMPERATURE"),
      GeBinarySensor("UPPER_OVEN_PROBE_PRESENT"), GeBinarySensor("UPPER_OVEN_REMOTE_ENABLED")>>

\* OvenApi.get_all_entities: the extend() for the lower oven repeats the UPPER codes
OvenEntities(has_lower_oven) ==
    BaseEntities \o OvenCavityEntities
        \o (IF has_lower_oven THEN OvenCavityEntities ELSE <<>>)

\* api.get_all_entities(): fresh entity objects, identified by <<id, position>>
GetAllEntities(api, id) ==
    LET codes == IF api.cls = "OvenApi" THEN OvenEntities(api.has_lower_oven) ELSE BaseEntities
    IN  [i \in 1..Len(codes) |->
            [cls |-> codes[i].cls, erd |-> codes[i].erd, jid |-> api.jid, id |-> <<id, i>>]]

\* the unique ids an ordered _entities dict holds
Keys(entities) == {UniqueId(entities[i]) : i \in 1..Len(entities)}

\* ApplianceApi.build_entities_list, on the _entities dict in insertion order
RECURSIVE AddNew(_, _, _)
AddNew(entities, new, i) ==
    IF i > Len(new) THEN entities
    ELSE IF UniqueId(new[i]) \notin Keys(entities)
         THEN AddNew(Append(entities, new[i]), new, i + 1)
         ELSE AddNew(entities, new, i + 1)

\* build_entities_list storing every entity of get_all_entities under its
\* unique id, without the `not in self._entities` test
RECURSIVE StoreAll(_, _, _)
StoreAll(entities, new, i) ==
    IF i > Len(new) THEN entities
    ELSE LET at == {k \in 1..Len(entities) : UniqueId(entities[k]) = UniqueId(new[i])}
         IN  IF at = {}
             THEN StoreAll(Append(entities, new[i]), new, i + 1)
             ELSE StoreAll([entities EXCEPT ![CHOOSE k \in at : TRUE] = new[i]], new, i + 1)

BuildEntitiesOverwriting(api, id) ==
    [api EXCEPT !.entities = StoreAll(api.entities, GetAllEntities(api, id), 1)]

BuildEntitiesListResult(api, id) ==
    [api EXCEPT !.entities = AddNew(api.entities, GetAllEntities(api, id), 1)]

\* ApplianceApi.entities: list(self._entities.values())
Entities(api) == api.entities

(* ---------------------------------------------------- update_coordinator *)
\* GeKitchenUpdateCoordinator.__init__
Init ==
    /\ clients = <<>>
    /\ client = NoClient
    /\ xmpp_credentials = "Optional[Dict]"
    /\ appliance_apis = EmptyMap
    /\ got_roster = TRUE
    /\ future_done = FALSE
    /\ set_result_calls = 0
    /\ ready_events = 0
    /\ roster_seen = FALSE
    /\ polls = {}
    /\ allocs = 0
    /\ writes = <<>>
    /\ last = Op("__init__", "", "none")

\* all_appliances_updated with any() for all()
AnyApplianceUpdated == \E j \in Roster : Appliances[j].initialized

\* all_appliances_updated that asks for at least one appliance
SomeAndAllAppliancesUpdated == Roster # {} /\ \A j \in Roster : Appliances[j].initialized

\* GeKitchenUpdateCoordinator.all_appliances_updated
AllAppliancesUpdated == \A j \in Roster : Appliances[j].initialized

\* maybe_trigger_all_ready without its `if self.initialization_future.done()`
\* return: set_result is called again (asyncio raises InvalidStateError)
TriggerWithoutDoneCheck(got) ==
    IF got /\ AllAppliancesUpdated
    THEN /\ future_done' = TRUE
         /\ set_result_calls' = set_result_calls + 1
         /\ ready_events' = IF future_done THEN ready_events ELSE ready_events + 1
    ELSE UNCHANGED <<future_done, set_result_calls, ready_events>>

\* maybe_trigger_all_ready emitting EVENT_ALL_APPLIANCES_READY outside the
\* guarded branch
TriggerEmitsEveryTime(got) ==
    /\ ready_events' = IF got /\ AllAppliancesUpdated /\ ready_events < 3
                       THEN ready_events + 1 ELSE ready_events
    /\ IF ~future_done /\ got /\ AllAppliancesUpdated
       THEN future_done' = TRUE /\ set_result_calls' = set_result_calls + 1
       ELSE UNCHANGED <<future_done, set_result_calls>>

\* GeKitchenUpdateCoordinator.maybe_trigger_all_ready, with self._got_roster = got
MaybeTriggerAllReady(got) ==
    IF future_done
    THEN UNCHANGED <<future_done, set_result_calls, ready_events>>
    ELSE IF got /\ AllAppliancesUpdated
         THEN /\ future_done' = TRUE
              /\ set_result_calls' = set_result_calls + 1
              /\ ready_events' = ready_events + 1
         ELSE UNCHANGED <<future_done, set_result_calls, ready_events>>

\* on_roster_update that marks the roster and leaves the evaluation out
OnRosterUpdateOnlyMarks ==
    /\ client # NoClient
    /\ got_roster' = TRUE
    /\ roster_seen' = TRUE
    /\ writes' = <<>>
    /\ last' = Op("on_roster_update", "", "none")
    /\ UNCHANGED <<clients, client, xmpp_credentials, appliance_apis, polls, allocs,
                   future_done, set_result_calls, ready_events>>

\* GeKitchenUpdateCoordinator.on_roster_update
OnRosterUpdate ==
    /\ client # NoClient
    /\ got_roster' = TRUE
    /\ roster_seen' = TRUE
    /\ MaybeTriggerAllReady(TRUE)
    /\ writes' = <<>>
    /\ last' = Handled("on_roster_update", "")
    /\ UNCHANGED <<clients, client, xmpp_credentials, appliance_apis, polls, allocs>>

\* The clients with the appliance objects nothing refers to any more dropped:
\* of a client the coordinator has replaced, the sleeping polling loops ps
\* still hold their appliance.
Collect(cs, cur, ps) ==
    [c \in DOMAIN cs |->
        IF c = cur THEN cs[c]
        ELSE [cs[c] EXCEPT !.appliances =
                 [j \in {k \in DOMAIN cs[c].appliances : <<c, k>> \in ps} |->
                     cs[c].appliances[j]]]]

\* the loop test without `appliance.available`
PollConditionSessionOnly(cs, c, j) == cs[client].connected

\* the test at the top of the polling loop of on_device_initial_update, for the
\* appliance object j of client c
PollCondition(cs, c, j) == cs[client].connected /\ cs[c].appliances[j].available

\* GeKitchenUpdateCoordinator.on_device_initial_update, up to its first sleep
OnDeviceInitialUpdate(j) ==
    /\ client # NoClient
    /\ j \in Roster
    /\ Appliances[j].event
    /\ clients' = [clients EXCEPT ![client].appliances[j].event = FALSE]
    /\ MaybeTriggerAllReady(got_roster)
    /\ polls' = IF PollCondition(clients, client, j) THEN polls \cup {<<client, j>>} ELSE polls
    /\ writes' = <<>>
    /\ last' = Handled("on_device_initial_update", j)
    /\ UNCHANGED <<client, xmpp_credentials, appliance_apis, got_roster, roster_seen, allocs>>

\* the polling loop with `while True`: the condition is not tested again
PollWakeNoTest(c, j) ==
    /\ <<c, j>> \in polls
    /\ polls' = polls
    /\ clients' = Collect(clients, client, polls')
    /\ writes' = <<>>
    /\ last' = Op("request_update", j, "none")
    /\ UNCHANGED <<client, xmpp_credentials, appliance_apis, allocs>>
    /\ UNCHANGED coordVars

\* the polling loop of on_device_initial_update: the sleep ends, request_update()
\* is called, and the loop condition is tested again
PollWake(c, j) ==
    /\ <<c, j>> \in polls
    /\ polls' = IF PollCondition(clients, c, j) THEN polls ELSE polls \ {<<c, j>>}
    /\ clients' = Collect(clients, client, polls')
    /\ writes' = <<>>
    /\ last' = Op("request_update", j, "none")
    /\ UNCHANGED <<client, xmpp_credentials, appliance_apis, allocs>>
    /\ UNCHANGED coordVars

\* the orders a dict with the keys S can iterate in
Orders(S) == {f \in [1..Cardinality(S) -> S] : \A a, b \in DOMAIN f : f[a] = f[b] => a = b}

\* the sequences one after the other
RECURSIVE Flatten(_)
Flatten(seqs) == IF seqs = <<>> THEN <<>> ELSE Head(seqs) \o Flatten(Tail(seqs))

\* on_device_update without the try/except KeyError around the lookup
OnDeviceUpdateNoExcept(apis, j) ==
    IF j \notin DOMAIN apis
    THEN [err |-> "KeyError", writes |-> <<>>]
    ELSE [err |-> "none", writes |-> Entities(apis[j])]

\* on_device_update writing the entities of every facade of the registry
OnDeviceUpdateAllFacades(apis, j) ==
    IF j \notin DOMAIN apis
    THEN [err |-> "none", writes |-> <<>>]
    ELSE [err |-> "none",
          writes |-> LET order == CHOOSE o \in Orders(DOMAIN apis) : TRUE
                     IN  Flatten([i \in 1..Len(order) |-> Entities(apis[order[i]])])]

\* the body of on_device_update for the appliance with bare JID j: the error it
\* ends with and the entities whose async_write_ha_state it calls, in order
OnDeviceUpdateResult(apis, j) ==
    IF j \notin DOMAIN apis
    THEN [err |-> "none", writes |-> <<>>]
    ELSE [err |-> "none", writes |-> Entities(apis[j])]

\* GeKitchenUpdateCoordinator.on_device_update
OnDeviceUpdate(j) ==
    /\ client # NoClient
    /\ j \in Roster
    /\ writes' = OnDeviceUpdateResult(appliance_apis, j).writes
    /\ last' = Op("on_device_update", j, OnDeviceUpdateResult(appliance_apis, j).err)
    /\ UNCHANGED <<clients, client, xmpp_credentials, appliance_apis, polls, allocs>>
    /\ UNCHANGED coordVars

\* GeKitchenUpdateCoordinator.regenerate_appliance_apis, from key i of the
\* iteration on: `for jid, appliance in self.client.appliances.keys()` unpacks
\* the key, a str, into two names
RECURSIVE RegenerateFrom(_, _, _)
RegenerateFrom(apis, order, i) ==
    IF i > Len(order) THEN [apis |-> apis, err |-> "none"]
    ELSE IF JidLen(order[i]) # 2 THEN [apis |-> apis, err |-> "ValueError"]
    ELSE IF FirstChar(order[i]) \notin DOMAIN apis
         THEN [apis |-> apis, err |-> "AttributeError"]
         ELSE RegenerateFrom(apis, order, i + 1)

\* regenerate_appliance_apis building a facade for every key of the roster, the
\* ones that have a facade included
RECURSIVE ReplaceFrom(_, _, _, _, _)
ReplaceFrom(apis, appliances, order, id, i) ==
    IF i > Len(order) THEN [apis |-> apis, err |-> "none"]
    ELSE LET jid == order[i]
             r == GetApplianceApi(id, jid, appliances[jid])
         IN  IF r.err # "none" THEN [apis |-> apis, err |-> r.err]
             ELSE ReplaceFrom([k \in DOMAIN apis \cup {jid} |->
                                  IF k = jid THEN r.api ELSE apis[k]],
                              appliances, order, id + 1, i + 1)

RegenerateReplacing(apis, appliances, order, id) ==
    ReplaceFrom(apis, appliances, order, id, 1)

\* regenerate_appliance_apis on the registry apis and the client's appliances,
\* iterated in the given order; id is the identity of the next object allocated
RegenerateResult(apis, appliances, order, id) == RegenerateFrom(apis, order, 1)

\* GeKitchenUpdateCoordinator.regenerate_appliance_apis
RegenerateApplianceApis ==
    /\ IF client = NoClient
       THEN /\ last' = Op("regenerate_appliance_apis", "", "AttributeError")
            /\ UNCHANGED appliance_apis
       ELSE \E order \in Orders(Roster) :
              LET r == RegenerateResult(appliance_apis, Appliances, order, allocs + 1)
              IN  /\ appliance_apis' = r.apis
                  /\ last' = Op("regenerate_appliance_apis", "", r.err)
    /\ allocs' = allocs
    /\ writes' = <<>>
    /\ UNCHANGED <<clients, client, xmpp_credentials, polls>>
    /\ UNCHANGED coordVars

\* values of self._xmpp_credentials that `not` takes for false
Falsy(c) == c \in {"None", "{}"}

\* what awaiting auth_handler.async_get_xmpp_credentials() can end with
ProviderAnswers == {"credentials", "AuthError"}

\* the events create_ge_client subscribes the coordinator's handlers to
Events == {"EVENT_APPLIANCE_INITIAL_UPDATE", "EVENT_APPLIANCE_STATE_CHANGE", "roster_update"}

\* GeClient(xmpp_credentials, event_loop=loop): no session, no appliances, no
\* event handlers, process_in_running_loop not scheduled
GeClient(credentials) ==
    [connected |-> FALSE, credentials |-> credentials, appliances |-> EmptyMap,
     handlers |-> {}, processing |-> FALSE]

\* GeKitchenUpdateCoordinator.create_ge_client: the client it returns
CreateGeClient(credentials) == [GeClient(credentials) EXCEPT !.handlers = Events]

\* GeKitchenUpdateCoordinator.get_new_client, awaited
GetNewClient ==
    /\ Len(clients) < MaxClients
    /\ LET dropped == IF client # NoClient
                      THEN [clients EXCEPT ![client].connected = FALSE]
                      ELSE clients
       IN  \E fetched \in ProviderAnswers :
             LET creds == IF Falsy(xmpp_credentials) THEN fetched ELSE xmpp_credentials
             IN  IF creds = "AuthError"
                 THEN /\ clients' = dropped
                      /\ last' = Op("get_new_client", "", "AuthError")
                      /\ UNCHANGED <<client, xmpp_credentials>>
                 ELSE /\ client' = Len(clients) + 1
                      /\ clients' = Collect(Append(dropped, GeClient(creds)), client', polls)
                      /\ xmpp_credentials' = creds
                      /\ last' = Op("get_new_client", "", "none")
    /\ writes' = <<>>
    /\ UNCHANGED <<appliance_apis, polls, allocs>>
    /\ UNCHANGED coordVars

\* GeKitchenUpdateCoordinator.start_client. Its first statement calls the
\* coroutine function get_new_client without awaiting the result: the coroutine
\* object is dropped and none of its body runs, so the client is not replaced
\* and the provider, which would have answered fetched, is not asked. The second
\* statement schedules process_in_running_loop of self.client.
StartClient(fetched) ==
    /\ IF client = NoClient
       THEN /\ last' = Op("start_client", "", "AttributeError")
            /\ UNCHANGED clients
       ELSE /\ clients' = [clients EXCEPT ![client].processing = TRUE]
            /\ last' = Op("start_client", "", "none")
    /\ writes' = <<>>
    /\ UNCHANGED <<client, xmpp_credentials, appliance_apis, polls, allocs>>
    /\ UNCHANGED coordVars

(* ------------------------------------------------------ the remote client *)
\* the session of the coordinator's client is established by its processing loop
ClientConnect ==
    /\ client # NoClient
    /\ clients[client].processing
    /\ ~clients[client].connected
    /\ clients' = [clients EXCEPT ![client].connected = TRUE]
    /\ writes' = <<>>
    /\ last' = Op("client", "", "none")
    /\ UNCHANGED <<client, xmpp_credentials, appliance_apis, polls, allocs>>
    /\ UNCHANGED coordVars

\* the session of the coordinator's client drops
ClientDisconnect ==
    /\ client # NoClient
    /\ clients[client].connected
    /\ clients' = [clients EXCEPT ![client].connected = FALSE]
    /\ writes' = <<>>
    /\ last' = Op("client", "", "none")
    /\ UNCHANGED <<client, xmpp_credentials, appliance_apis, polls, allocs>>
    /\ UNCHANGED coordVars

\* the client learns of appliance j: a GeAppliance that has not synchronised yet
RosterAdd(j) ==
    /\ client # NoClient
    /\ clients[client].connected
    /\ j \notin Roster
    /\ clients' = [clients EXCEPT ![client].appliances =
                      [k \in Roster \cup {j} |->
                          IF k = j THEN NewAppliance(j) ELSE Appliances[k]]]
    /\ writes' = <<>>
    /\ last' = Op("client", "", "none")
    /\ UNCHANGED <<client, xmpp_credentials, appliance_apis, polls, allocs>>
    /\ UNCHANGED coordVars

\* appliance j completes its first full state sync: the client sets initialized
\* and emits EVENT_APPLIANCE_INITIAL_UPDATE
ApplianceInitialized(j) ==
    /\ client # NoClient
    /\ clients[client].connected
    /\ j \in Roster
    /\ ~Appliances[j].initialized
    /\ clients' = [clients EXCEPT ![client].appliances[j].initialized = TRUE,
                                  ![client].appliances[j].event = TRUE]
    /\ writes' = <<>>
    /\ last' = Op("client", "", "none")
    /\ UNCHANGED <<client, xmpp_credentials, appliance_apis, polls, allocs>>
    /\ UNCHANGED coordVars

\* appliance j becomes unreachable, or reachable again
SetAvailable(j) ==
    /\ client # NoClient
    /\ j \in Roster
    /\ clients' = [clients EXCEPT ![client].appliances[j].available = ~@]
    /\ writes' = <<>>
    /\ last' = Op("client", "", "none")
    /\ UNCHANGED <<client, xmpp_credentials, appliance_apis, polls, allocs>>
    /\ UNCHANGED coordVars

Next ==
    \/ GetNewClient
    \/ \E fetched \in ProviderAnswers : StartClient(fetched)
    \/ OnRosterUpdate
    \/ \E j \in Jids : OnDeviceInitialUpdate(j)
    \/ \E c \in 1..MaxClients, j \in Jids : PollWake(c, j)
    \/ \E j \in Jids : OnDeviceUpdate(j)
    \/ RegenerateApplianceApis
    \/ ClientConnect
    \/ ClientDisconnect
    \/ \E j \in Jids : RosterAdd(j)
    \/ \E j \in Jids : ApplianceInitialized(j)
    \/ \E j \in Jids : SetAvailable(j)

Spec == Init /\ [][Next]_vars

\* the operations that read or write the client, its session, its appliances or
\* the polling loops; the registry operations and on_roster_update do neither
NextPolling ==
    \/ GetNewClient
    \/ \E fetched \in ProviderAnswers : StartClient(fetched)
    \/ \E j \in Jids : OnDeviceInitialUpdate(j)
    \/ \E c \in 1..MaxClients, j \in Jids : PollWake(c, j)
    \/ ClientConnect
    \/ ClientDisconnect
    \/ \E j \in Jids : RosterAdd(j)
    \/ \E j \in Jids : ApplianceInitialized(j)
    \/ \E j \in Jids : SetAvailable(j)

\* the event loop resumes a polling loop whose asyncio.sleep(UPDATE_INTERVAL)
\* has run out
SpecFair ==
    /\ Init /\ [][NextPolling]_vars
    /\ \A c \in 1..MaxClients, j \in Jids : WF_vars(PollWake(c, j))

(* ------------------------------------------------------- the facade layer *)
\* the identity of the facade a registry holds for j before any operation
FirstId(j) == IF j = "io" THEN -2 ELSE -1

\* the GeAppliance objects a client can hold for the bare JID j
ApplianceStates(j) ==
    {[initialized |-> i, available |-> TRUE, event |-> FALSE,
      appliance_type |-> t, has_lower_oven |-> l, temperature_unit |-> u] :
        i \in BOOLEAN, t \in {"OVEN", "DISH_WASHER"}, l \in BOOLEAN, u \in MeasurementUnits}

\* the rosters a client can hold
Rosters ==
    UNION {{f \in [S -> UNION {ApplianceStates(j) : j \in S}] :
               \A j \in S : f[j].has_lower_oven => f[j].appliance_type = "OVEN"} :
           S \in SUBSET Jids}

\* a coordinator with a connected client, some roster, and a registry holding
\* facades for some of the initialized appliances of the roster
InitApi ==
    /\ \E roster \in Rosters :
         /\ clients = <<[GeClient("Optional[Dict]") EXCEPT !.connected = TRUE,
                                                           !.processing = TRUE,
                                                           !.appliances = roster]>>
         /\ \E K \in SUBSET {j \in DOMAIN roster : roster[j].initialized} :
              appliance_apis =
                  [j \in K |-> GetApplianceApi(FirstId(j), j, roster[j]).api]
    /\ client = 1
    /\ xmpp_credentials = "Optional[Dict]"
    /\ got_roster = TRUE
    /\ future_done = FALSE
    /\ set_result_calls = 0
    /\ ready_events = 0
    /\ roster_seen = FALSE
    /\ polls = {}
    /\ allocs = 0
    /\ writes = <<>>
    /\ last = Op("__init__", "", "none")

\* GeKitchenUpdateCoordinator._get_appliance_api(appliance), called on the
\* appliance j of the roster; the object it returns is dropped
ConstructFacade(j) ==
    /\ client # NoClient
    /\ j \in Roster
    /\ allocs < MaxAllocs
    /\ LET r == GetApplianceApi(allocs + 1, j, Appliances[j])
       IN  /\ last' = Op("_get_appliance_api", j, r.err)
           /\ allocs' = IF r.err = "none" THEN allocs + 1 ELSE allocs
    /\ writes' = <<>>
    /\ UNCHANGED <<clients, client, xmpp_credentials, appliance_apis, polls>>
    /\ UNCHANGED coordVars

\* ApplianceApi.build_entities_list on the facade the registry holds for j
BuildEntitiesList(j) ==
    /\ j \in DOMAIN appliance_apis
    /\ allocs < MaxAllocs
    /\ appliance_apis' =
           [appliance_apis EXCEPT ![j] = BuildEntitiesListResult(@, allocs + 1)]
    /\ allocs' = allocs + 1
    /\ writes' = <<>>
    /\ last' = Op("build_entities_list", j, "none")
    /\ UNCHANGED <<clients, client, xmpp_credentials, polls>>
    /\ UNCHANGED coordVars

\* GeSensor.units of entity i of the facade the registry holds for j
ReadUnits(j, i) ==
    /\ j \in DOMAIN appliance_apis
    /\ i \in 1..Len(appliance_apis[j].entities)
    /\ appliance_apis[j].entities[i].cls = "GeSensor"
    /\ last' = Returned("units", j, appliance_apis[j].entities[i].erd,
                        GetErdUnits(appliance_apis[j].entities[i].erd,
                                    Appliances[j].temperature_unit))
    /\ writes' = <<>>
    /\ UNCHANGED <<clients, client, xmpp_credentials, appliance_apis, polls, allocs>>
    /\ UNCHANGED coordVars

NextApi ==
    \/ \E j \in Jids, i \in 1..Len(OvenEntities(TRUE)) : ReadUnits(j, i)
    \/ \E j \in Jids : ConstructFacade(j)
    \/ \E j \in Jids : BuildEntitiesList(j)
    \/ \E j \in Jids : OnDeviceUpdate(j)
    \/ RegenerateApplianceApis

SpecApi == InitApi /\ [][NextApi]_vars

(* ------------------------------------------------------------- readiness *)
\* every appliance in the roster of the coordinator's client is initialized
RosterInitialized ==
    /\ client # NoClient
    /\ \A j \in DOMAIN clients[client].appliances :
          clients[client].appliances[j].initialized

\* a step of on_roster_update or on_device_initial_update
ReadinessHandler == OnRosterUpdate \/ \E j \in Jids : OnDeviceInitialUpdate(j)

\* C1: the Readiness Signal is never resolved in a state where no roster-update
\* event has been handled yet.
C1_NotResolvedBeforeRoster == future_done => roster_seen

\* C2: in the step that takes the Readiness Signal from pending to resolved,
\* every appliance in the roster of the client is initialized; while some
\* appliance is not, the signal stays pending.
C2_ResolvesOnlyWhenAllInitialized ==
    [][(~future_done /\ future_done') => (RosterInitialized /\ RosterInitialized')]_vars

\* A's initial update was handled while B of the roster {A, B} is uninitialized,
\* and the signal is pending
C2_Witness ==
    /\ last.op = "on_device_initial_update"
    /\ client # NoClient /\ Roster = Jids
    /\ \E j \in Roster : ~Appliances[j].initialized
    /\ ~future_done

\* C3: a step of on_roster_update or on_device_initial_update that starts with
\* the signal pending and ends with a roster update seen and every appliance
\* initialized resolves the signal.
C3_HandlerResolvesWhenQualified ==
    [][(ReadinessHandler /\ ~future_done /\ roster_seen' /\ RosterInitialized')
          => future_done']_vars

\* the initial update of the last uninitialized appliance of {A, B}, handled
\* after a roster update, resolved the signal
C3_Witness ==
    /\ last.op = "on_device_initial_update" /\ last.resolved
    /\ roster_seen /\ Roster = Jids /\ future_done

\* C4: once resolved the Readiness Signal stays resolved, and no later step
\* calls set_result again: it is called at most once.
C4_ResolvedOnce ==
    [][/\ future_done => (future_done' /\ set_result_calls' = set_result_calls)
       /\ set_result_calls' <= 1]_vars

\* on_roster_update was handled with the signal already resolved and an
\* uninitialized appliance in the roster
C4_Witness ==
    /\ last.op = "on_roster_update" /\ ~last.resolved
    /\ future_done /\ set_result_calls = 1
    /\ \E j \in Roster : ~Appliances[j].initialized

\* C5: the "all appliances ready" notification is emitted in exactly the step
\* that resolves the Readiness Signal, hence at most once.
C5_ReadyEventOnResolution ==
    [][/\ ready_events' = ready_events + (IF ~future_done /\ future_done' THEN 1 ELSE 0)
       /\ ready_events' <= 1]_vars

\* a handler evaluated readiness again after the notification was emitted
C5_Witness ==
    /\ last.op \in {"on_roster_update", "on_device_initial_update"} /\ ~last.resolved
    /\ future_done /\ ready_events = 1 /\ RosterInitialized /\ Roster # {}

(* ---------------------------------------------------------------- facades *)
\* the entities the facade f owns
Owned(f) == {f.entities[i] : i \in 1..Len(f.entities)}

\* how many times e occurs in the sequence w
Times(w, e) == Cardinality({i \in 1..Len(w) : w[i] = e})

\* C6: on_device_update for an identifier without a facade in the registry
\* raises nothing, re-renders no entity, and leaves the registry, the readiness
\* state and the client as they were.
C6_AbsentIsNoOp ==
    [][\A j \in Jids :
          (OnDeviceUpdate(j) /\ j \notin DOMAIN appliance_apis)
              => /\ last'.err = "none"
                 /\ writes' = <<>>
                 /\ UNCHANGED <<appliance_apis, clients, client, polls>>
                 /\ UNCHANGED coordVars]_vars

\* a state change of an appliance without a facade was handled while another
\* appliance has a facade that owns entities
C6_Witness ==
    /\ last.op = "on_device_update" /\ last.jid \notin DOMAIN appliance_apis
    /\ \E k \in DOMAIN appliance_apis : Len(appliance_apis[k].entities) > 0

\* C7: on_device_update for an identifier with a facade in the registry
\* re-renders every entity that facade owns exactly once, and no entity of
\* another facade.
C7_RendersOwnEntitiesOnce ==
    [][\A j \in Jids :
          (OnDeviceUpdate(j) /\ j \in DOMAIN appliance_apis)
              => /\ \A e \in Owned(appliance_apis[j]) : Times(writes', e) = 1
                 /\ \A i \in 1..Len(writes') : writes'[i] \in Owned(appliance_apis[j])
                 /\ \A k \in DOMAIN appliance_apis \ {j} :
                       \A e \in Owned(appliance_apis[k]) : Times(writes', e) = 0]_vars

\* a state change of an appliance whose facade owns entities was handled while
\* another facade owns entities too
C7_Witness ==
    /\ last.op = "on_device_update" /\ last.jid \in DOMAIN appliance_apis
    /\ Len(appliance_apis[last.jid].entities) > 0
    /\ Len(writes) = Len(appliance_apis[last.jid].entities)
    /\ \E k \in DOMAIN appliance_apis \ {last.jid} : Len(appliance_apis[k].entities) > 0

\* C8: after regenerate_appliance_apis on a client whose roster appliances are
\* all initialized, every identifier of the roster has a facade in the registry,
\* of the class the type dispatch selects for the appliance's type.
C8_RegenerateCoversRoster ==
    (last.op = "regenerate_appliance_apis" /\ RosterInitialized)
        => \A j \in DOMAIN clients[client].appliances :
              /\ j \in DOMAIN appliance_apis
              /\ appliance_apis[j].cls =
                    (IF clients[client].appliances[j].appliance_type = "OVEN"
                     THEN "OvenApi" ELSE "ApplianceApi")

\* C9: regenerate_appliance_apis keeps every facade of the registry, the same
\* object under the same key, and a call that follows another call with the
\* roster unchanged leaves the registry as the first call left it.
C9_RegenerateKeepsFacades ==
    [][RegenerateApplianceApis
          => /\ \A j \in DOMAIN appliance_apis :
                   j \in DOMAIN appliance_apis' /\ appliance_apis'[j] = appliance_apis[j]
             /\ last.op = "regenerate_appliance_apis" => appliance_apis' = appliance_apis]_vars

\* regenerate_appliance_apis ran on a registry that holds a facade while the
\* roster has an initialized appliance without one
C9_Witness ==
    /\ last.op = "regenerate_appliance_apis"
    /\ DOMAIN appliance_apis # {}
    /\ \E j \in Roster \ DOMAIN appliance_apis : Appliances[j].initialized

\* C10: constructing a facade for an appliance that is not initialized fails
\* with the constructor's 'Appliance not ready' error, and after
\* regenerate_appliance_apis the registry holds no facade for such an appliance.
C10_UninitializedNotConstructed ==
    [][/\ \A j \in Jids :
            (ConstructFacade(j) /\ ~clients[client].appliances[j].initialized)
                => (last'.err = "RuntimeError" /\ appliance_apis' = appliance_apis
                    /\ allocs' = allocs)
       /\ RegenerateApplianceApis
            => \A j \in DOMAIN clients[client].appliances :
                  ~clients[client].appliances[j].initialized
                      => j \notin DOMAIN appliance_apis']_vars

\* the construction of a facade for an uninitialized appliance has failed
C10_Witness ==
    /\ last.op = "_get_appliance_api" /\ last.err = "RuntimeError"
    /\ ~Appliances[last.jid].initialized

(* --------------------------------------------------------------- entities *)
\* the entities of the facade f that are not the two every facade has
OvenSpecific(f) ==
    {i \in 1..Len(f.entities) : f.entities[i].erd \notin {"CLOCK_TIME", "SABBATH_MODE"}}

\* the entities of the facade f that every facade has
Shared(f) ==
    {f.entities[i].erd : i \in 1..Len(f.entities)} \cap {"CLOCK_TIME", "SABBATH_MODE"}

\* C11: build_entities_list never removes or replaces an entity of the facade,
\* and called on a facade whose entities were built already it leaves the
\* mapping as it is: the same entities, the same objects, in the same number.
C11_BuildIsIdempotent ==
    [][\A j \in Jids :
          BuildEntitiesList(j)
              => LET old == appliance_apis[j].entities
                     new == appliance_apis'[j].entities
                 IN  /\ Len(new) >= Len(old)
                     /\ \A i \in 1..Len(old) : new[i] = old[i]
                     /\ Len(old) > 0 => new = old
                     /\ Cardinality(Keys(new)) = Len(new)]_vars

\* build_entities_list has run a second time on the same facade, and every
\* entity the facade holds is one the first call made
C11_Witness ==
    /\ last.op = "build_entities_list" /\ allocs = 2
    /\ last.jid \in DOMAIN appliance_apis
    /\ Len(appliance_apis[last.jid].entities) > 0
    /\ \A i \in 1..Len(appliance_apis[last.jid].entities) :
          appliance_apis[last.jid].entities[i].id[1] = 1

\* C12: once their entities are built, an oven facade whose appliance has a
\* lower oven owns twice as many oven entities as one whose appliance has
\* none, and both own the two shared entities.
C12_LowerOvenDoubles ==
    \A j, k \in DOMAIN appliance_apis :
        LET f == appliance_apis[j]
            g == appliance_apis[k]
        IN  (/\ f.cls = "OvenApi" /\ g.cls = "OvenApi"
             /\ Len(f.entities) > 0 /\ Len(g.entities) > 0
             /\ f.has_lower_oven /\ ~g.has_lower_oven)
                => /\ Cardinality(OvenSpecific(f)) = 2 * Cardinality(OvenSpecific(g))
                   /\ Shared(f) = Shared(g)

(* ------------------------------------------------------------------ units *)
\* the measurement system of the appliance the last read was about
LastUnit == clients[client].appliances[last.jid].temperature_unit

\* C13, as claimed: units of a temperature code is the Celsius symbol when
\* the measurement system is metric and the Fahrenheit symbol for every other
\* value, an absent one included; for any other code it is absent.
C13_FahrenheitUnlessMetric ==
    last.op = "units"
        => last.ret = (IF last.erd \in TemperatureErdCodes
                       THEN IF LastUnit = "METRIC" THEN "TEMP_CELSIUS" ELSE "TEMP_FAHRENHEIT"
                       ELSE "None")

\* C13, amended: units is absent whenever the measurement system is absent;
\* with a measurement system present, a temperature code gives the Celsius
\* symbol for metric and the Fahrenheit symbol for any other value, and any
\* other code gives absent.
C13_UnitsBySystem ==
    last.op = "units"
        => last.ret = (CASE LastUnit = "None" -> "None"
                         [] last.erd \notin TemperatureErdCodes -> "None"
                         [] LastUnit = "METRIC" -> "TEMP_CELSIUS"
                         [] OTHER -> "TEMP_FAHRENHEIT")

\* units was read for a temperature code of an appliance that reports no
\* measurement system
C13_Witness ==
    /\ last.op = "units" /\ last.erd \in TemperatureErdCodes
    /\ LastUnit = "None" /\ last.ret = "None"

(* ----------------------------------------------------------- client setup *)
\* C14, as claimed: once start_client has returned, the client the coordinator
\* holds is one create_ge_client made: its processing loop is scheduled and the
\* three events are subscribed to the coordinator's handlers.
C14_StartedClientHasHandlers ==
    (last.op = "start_client" /\ last.err = "none")
        => /\ client # NoClient
           /\ clients[client].processing
           /\ clients[client].handlers = CreateGeClient(clients[client].credentials).handlers

\* C15, as claimed: start_client on a coordinator that holds a client
\* disconnects it, installs a new client and schedules the processing loop on
\* the new one, never on the one held before; with no client it schedules
\* nothing.
C15_StartReplacesClient ==
    [][\A fetched \in ProviderAnswers :
          StartClient(fetched) =>
              IF client = NoClient
              THEN clients' = clients
              ELSE /\ client' # client
                   /\ ~clients'[client].connected
                   /\ clients'[client].processing = clients[client].processing
                   /\ clients'[client'].processing]_vars

C18_ClientsGetFetchedCredentials ==
    \A c \in DOMAIN clients : clients[c].credentials = "credentials"

(* ---------------------------------------------------------------- polling *)
\* the session the coordinator holds is connected and the appliance object of
\* the loop <<c, j>> is available
LoopMayContinue(c, j) == clients[client].connected /\ clients[c].appliances[j].available

Loops == (1..MaxClients) \X Jids

\* C17, as claimed: once the session is disconnected or the appliance is
\* unavailable, the polling loop issues no further refresh request and ends
\* without an error, and a loop for an appliance starts only in the handler of
\* an initial-update event.
C17_NoRequestOnceDead ==
    [][\A l \in Loops :
          /\ (l \in polls /\ ~LoopMayContinue(l[1], l[2])) => ~PollWake(l[1], l[2])
          /\ PollWake(l[1], l[2]) => last'.err = "none"
          /\ (l \in polls' /\ l \notin polls) => OnDeviceInitialUpdate(l[2])]_vars

\* C17, amended: a polling loop whose condition is false and stays false
\* eventually ends, at the refresh request that follows its sleep and without
\* an error, and a loop for an appliance starts only in the handler of an
\* initial-update event.
C17_LoopEndsOnceDead ==
    /\ \A l \in Loops :
          (l \in polls /\ ~LoopMayContinue(l[1], l[2]))
              ~> (l \notin polls \/ LoopMayContinue(l[1], l[2]))
    /\ [][\A l \in Loops :
            /\ (l \in polls /\ l \notin polls')
                  => (last'.op = "request_update" /\ last'.err = "none")
            /\ (l \in polls' /\ l \notin polls) => OnDeviceInitialUpdate(l[2])]_vars

\* the loop of an appliance that had become unavailable has just ended, the
\* session still connected
C17_Witness ==
    /\ last.op = "request_update"
    /\ client # NoClient /\ clients[client].connected
    /\ last.jid \in Roster /\ ~Appliances[last.jid].available
    /\ <<client, last.jid>> \notin polls

\* C19, as claimed: a polling loop started under a client the coordinator has
\* replaced ends at its next test of the loop condition, whether or not the
\* new client is connected.
C19_ReplacedClientsLoopEnds ==
    [][\A l \in Loops : (PollWake(l[1], l[2]) /\ l[1] # client) => l \notin polls']_vars

\* C20, as claimed: a refresh request is issued only in a state where the
\* session is connected and the appliance is available.
C20_RequestsOnlyWhileLive ==
    [][\A l \in Loops :
          PollWake(l[1], l[2])
              => clients[client].connected /\ clients[l[1]].appliances[l[2]].available]_vars

\* C20, amended: the loop tests the session and the availability only after a
\* refresh request: a request issued while the session is disconnected or the
\* appliance unavailable is the last request of its loop.
C20_StaleRequestIsLast ==
    [][\A l \in Loops :
          (PollWake(l[1], l[2]) /\ ~LoopMayContinue(l[1], l[2])) => l \notin polls']_vars

\* a refresh request was issued while the session was disconnected, and the
\* loop that issued it has ended
C20_Witness ==
    /\ last.op = "request_update"
    /\ client # NoClient /\ ~clients[client].connected
    /\ \A l \in polls : l[2] # last.jid

(* ----------------------------------------------------------- empty roster *)
\* the client of the coordinator knows no appliance
RosterEmpty == client # NoClient /\ DOMAIN clients[client].appliances = {}

\* C21: a readiness evaluation made with the signal pending, roster-received
\* true and an empty roster resolves the Readiness Signal, and the signal stays
\* resolved in every later step, also when appliances join the roster.
C21_EmptyRosterResolves ==
    [][/\ (ReadinessHandler /\ ~future_done /\ got_roster' /\ RosterEmpty') => future_done'
       /\ future_done => future_done']_vars

\* on_roster_update, handled while the client knew no appliance, resolved the
\* signal
C21_Witness ==
    /\ last.op = "on_roster_update" /\ last.resolved
    /\ RosterEmpty /\ future_done /\ ready_events = 1

====
